---------------------------- MODULE Spec2Model ----------------------------
(***************************************************************************)
(* Laboratory test-results engine of the patient chart widgets:            *)
(*   - loadPatientTestData/helpers (src/unnamed/part_000, lines 1-247):    *)
(*     page fetching, freshness cache, concept memo;                       *)
(*   - loadPatientTestData/loadPatientData and timeline/useTimelineData    *)
(*     (src/src/widgets/test-results/timeline/useTimelineData.ts).         *)
(*                                                                         *)
(* An optional JavaScript value (undefined or a value) is a sequence of    *)
(* length 0 or 1: None is undefined, Some(x) is x.  A hole of a sparse     *)
(* array is None as well.                                                  *)
(***************************************************************************)
EXTENDS Integers, Sequences, FiniteSets, TLC

None == << >>
Some(x) == << x >>

Max(S) == CHOOSE m \in S : \A x \in S : x <= m
Min2(a, b) == IF a <= b THEN a ELSE b

\* Math.ceil(a / b) for a >= 0, b > 0
Ceil(a, b) == (a + b - 1) \div b

Range(s) == { s[i] : i \in DOMAIN s }

\* Array.prototype.slice(0, n)
Slice0(s, n) == SubSeq(s, 1, Min2(n, Len(s)))

RECURSIVE Flatten(_)
\* Array.prototype.flatMap over a sequence of sequences
Flatten(ss) == IF ss = << >> THEN << >> ELSE Head(ss) \o Flatten(Tail(ss))

\* Array.prototype.sort with a comparator ordering the keys descending,
\* key[i] being the key of s[i].  The sort is stable: entries of equal key
\* keep their relative order.
StableSortDesc(s, key) ==
    LET n == Len(s)
        Rank(i) == Cardinality({ j \in 1..n : key[j] > key[i] })
                   + Cardinality({ j \in 1..i : key[j] = key[i] })
    IN  [ r \in 1..n |-> s[CHOOSE i \in 1..n : Rank(i) = r] ]

-----------------------------------------------------------------------------
(* Program constants *)

PAGE_SIZE == 100
CHUNK_PREFETCH_COUNT == 6
\* the cache keeps at most this many patients (part_000 lines 37 and 40)
CacheLimit == 3

-----------------------------------------------------------------------------
(* Bounds of the model *)

\* longest raw entry list given to the reconstruction on its own
MaxEntries == 3
\* largest value Date.now() takes
MaxClock == 3
\* aggregate requests made in one run
MaxRequests == 2
\* most entries of the panel given to the timeline pivot
MaxPanelEntries == 3
\* the longest list of timestamps given to parseTime
MaxTimes == 3

-----------------------------------------------------------------------------
(* The remote API: concept dictionary *)

ConceptUuids == { "cPanel", "cTest", "cMisc" }

\* GET /ws/rest/v1/concept/<uuid>?v=full
ConceptRecord(uuid) ==
    CASE uuid = "cPanel" ->
           [ uuid |-> uuid, display |-> "CBC",
             conceptClass |-> [ name |-> "LabSet", display |-> "LabSet" ],
             hiAbsolute |-> None, hiCritical |-> None, hiNormal |-> None,
             lowAbsolute |-> None, lowCritical |-> None, lowNormal |-> None ]
      [] uuid = "cTest" ->
           [ uuid |-> uuid, display |-> "Hgb",
             conceptClass |-> [ name |-> "Test", display |-> "Test" ],
             hiAbsolute |-> Some(100), hiCritical |-> Some(90), hiNormal |-> Some(80),
             lowAbsolute |-> Some(0), lowCritical |-> Some(5), lowNormal |-> Some(10) ]
      [] OTHER ->
           [ uuid |-> uuid, display |-> "Weight",
             conceptClass |-> [ name |-> "Misc", display |-> "Misc" ],
             hiAbsolute |-> None, hiCritical |-> None, hiNormal |-> None,
             lowAbsolute |-> None, lowCritical |-> None, lowNormal |-> None ]

-----------------------------------------------------------------------------
(* Observations *)

\* effectiveDateTime "YYYY-MM-DDTHH:MM" as <<year, month, day, hour, minutes>>
Times == { <<2023, 12, 31, 23, 59>>, <<2024, 1, 5, 8, 0>>, <<2024, 1, 5, 14, 30>> }

\* Date.parse: the instant of a timestamp, here in minutes (order preserving)
DateParse(t) == (((t[1] * 12 + (t[2] - 1)) * 31 + (t[3] - 1)) * 24 + t[4]) * 60 + t[5]

\* a hasMember item { reference: "Observation/<id>" }
Ref(id) == [ reference |-> << "Observation", id >> ]

\* memb.reference.split("/")[1]
RefId(memb) == memb.reference[2]

\* a raw FHIR Observation resource
Obs(id, code, time, hasMember, valueQuantity) ==
    [ id |-> id, code |-> code, effectiveDateTime |-> time,
      hasMember |-> hasMember, valueQuantity |-> valueQuantity ]

getEntryConceptClassUuid(entry) == entry.code

RECURSIVE Distinct(_)
\* [...new Set(seq)]: first occurrences, in order
Distinct(s) ==
    IF s = << >> THEN << >>
    ELSE LET d == Distinct(SubSeq(s, 1, Len(s) - 1))
             x == s[Len(s)]
         IN  IF x \in Range(d) THEN d ELSE Append(d, x)

\* the concept identifiers loadPresentConcepts asks for
PresentConceptUuids(entries) ==
    Distinct([ i \in DOMAIN entries |-> getEntryConceptClassUuid(entries[i]) ])

-----------------------------------------------------------------------------
(* Reconstruction of the panel / member tree (loadPatientData) *)

\* exist(...args): no argument is null or undefined
exist(args) == \A i \in DOMAIN args : args[i] # None

\* a variant whose comparisons include the bound itself
assessValueInclusive(meta, value) ==
    IF exist(<< meta.hiAbsolute >>) /\ value >= meta.hiAbsolute[1] THEN "OFF_SCALE_HIGH"
    ELSE IF exist(<< meta.hiCritical >>) /\ value >= meta.hiCritical[1] THEN "CRITICALLY_HIGH"
    ELSE IF exist(<< meta.hiNormal >>) /\ value >= meta.hiNormal[1] THEN "HIGH"
    ELSE IF exist(<< meta.lowAbsolute >>) /\ value <= meta.lowAbsolute[1] THEN "OFF_SCALE_LOW"
    ELSE IF exist(<< meta.lowCritical >>) /\ value <= meta.lowCritical[1] THEN "CRITICALLY_LOW"
    ELSE IF exist(<< meta.lowNormal >>) /\ value <= meta.lowNormal[1] THEN "LOW"
    ELSE "NORMAL"

\* assessValue(meta)(value): the members of OBSERVATION_INTERPRETATION by name
assessValue(meta, value) ==
    IF exist(<< meta.hiAbsolute >>) /\ value > meta.hiAbsolute[1] THEN "OFF_SCALE_HIGH"
    ELSE IF exist(<< meta.hiCritical >>) /\ value > meta.hiCritical[1] THEN "CRITICALLY_HIGH"
    ELSE IF exist(<< meta.hiNormal >>) /\ value > meta.hiNormal[1] THEN "HIGH"
    ELSE IF exist(<< meta.lowAbsolute >>) /\ value < meta.lowAbsolute[1] THEN "OFF_SCALE_LOW"
    ELSE IF exist(<< meta.lowCritical >>) /\ value < meta.lowCritical[1] THEN "CRITICALLY_LOW"
    ELSE IF exist(<< meta.lowNormal >>) /\ value < meta.lowNormal[1] THEN "LOW"
    ELSE "NORMAL"

\* the ObsMetaInfo extractMetaInformation builds for one concept
MetaOf(concept) ==
    [ hiAbsolute |-> concept.hiAbsolute, hiCritical |-> concept.hiCritical,
      hiNormal |-> concept.hiNormal, lowAbsolute |-> concept.lowAbsolute,
      lowCritical |-> concept.lowCritical, lowNormal |-> concept.lowNormal,
      range |-> IF exist(<< concept.hiNormal, concept.lowNormal >>)
                THEN Some(<< concept.lowNormal[1], concept.hiNormal[1] >>)
                ELSE None ]

\* Object.fromEntries over <<key, value>> pairs: a later pair overwrites
FromEntries(pairs) ==
    [ k \in { pairs[i][1] : i \in DOMAIN pairs } |->
        pairs[Max({ i \in DOMAIN pairs : pairs[i][1] = k })][2] ]

extractMetaInformation(concepts) ==
    FromEntries([ i \in DOMAIN concepts |-> << concepts[i].uuid, MetaOf(concepts[i]) >> ])

\* the entry as parseSingleObsData leaves it (the member slots still empty)
parseSingleObsData(entry, testConceptNameMap, metaInfomation) ==
    LET conceptClass == getEntryConceptClassUuid(entry)
        isPanel == entry.hasMember # None
    IN  [ id |-> entry.id,
          code |-> entry.code,
          effectiveDateTime |-> entry.effectiveDateTime,
          hasMember |-> entry.hasMember,
          conceptClass |-> conceptClass,
          members |-> IF isPanel
                      THEN Some([ i \in 1..Len(entry.hasMember[1]) |-> None ])
                      ELSE None,
          meta |-> IF isPanel THEN None ELSE Some(metaInfomation[conceptClass]),
          value |-> IF entry.valueQuantity # None
                    THEN Some(entry.valueQuantity[1].value)
                    ELSE None,
          valueQuantity |-> None,
          name |-> testConceptNameMap[conceptClass] ]

\* a variant that records no member reference
RegisterNoMembers(memberRefs, pos, entry) == memberRefs

\* memberRefs after parseSingleObsData has seen the entry at position pos:
\* each declared reference points at <<pos, i>>, a later one overwriting
RegisterMembers(memberRefs, pos, entry) ==
    IF entry.hasMember = None THEN memberRefs
    ELSE LET refs == entry.hasMember[1]
             ids == { RefId(refs[i]) : i \in DOMAIN refs }
             new == [ id \in ids |->
                        << pos, Max({ i \in DOMAIN refs : RefId(refs[i]) = id }) >> ]
         IN  new @@ memberRefs

RECURSIVE ForEachEntry(_, _, _, _, _, _)
\* entries.forEach of loadPatientData, from position k on.  acc.parsed[pos] is
\* the entry object at raw position pos; the collections hold positions.
ForEachEntry(entries, k, acc, testConceptUuids, testConceptNameMap, metaInfomation) ==
    IF k > Len(entries) THEN acc
    ELSE LET entry == entries[k]
             next ==
               IF getEntryConceptClassUuid(entry) \notin Range(testConceptUuids)
               THEN acc
               ELSE LET parsed == parseSingleObsData(entry, testConceptNameMap,
                                                     metaInfomation)
                    IN  [ acc EXCEPT
                            !.parsed[k] = parsed,
                            !.memberRefs = RegisterMembers(@, k, entry),
                            !.obsByClass[parsed.conceptClass] =
                                IF parsed.members # None THEN Append(@, k) ELSE @,
                            !.singeEntries =
                                IF parsed.members # None THEN @ ELSE Append(@, k) ]
         IN  ForEachEntry(entries, k + 1, next, testConceptUuids,
                          testConceptNameMap, metaInfomation)

RECURSIVE ForEachSingle(_, _)
\* singeEntries.forEach of loadPatientData, from index k on.  acc.slots maps
\* <<panel position, slot>> to the position of the entry stored there.
ForEachSingle(k, acc) ==
    IF k > Len(acc.singeEntries) THEN acc
    ELSE LET pos == acc.singeEntries[k]
             entry == acc.parsed[pos]
             next ==
               IF entry.id \in DOMAIN acc.memberRefs
               THEN [ acc EXCEPT
                        !.slots = (acc.memberRefs[entry.id] :> pos) @@ @ ]
               ELSE [ acc EXCEPT
                        !.obsByClass[entry.conceptClass] = Append(@, pos) ]
         IN  ForEachSingle(k + 1, next)

\* a variant that packs the members found to the front of the array
EntryObjectPacked(acc, pos) ==
    LET entry == acc.parsed[pos]
    IN  IF entry.members = None THEN entry
        ELSE LET N == Len(entry.members[1])
                 found == SelectSeq([ i \in 1..N |-> i ],
                                    LAMBDA i : << pos, i >> \in DOMAIN acc.slots)
             IN  [ entry EXCEPT
                     !.members = Some([ i \in 1..N |->
                                          IF i <= Len(found)
                                          THEN Some(acc.parsed[acc.slots[<< pos, found[i] >>]])
                                          ELSE None ]) ]

\* the entry object at position pos once every single entry has been placed
EntryObject(acc, pos) ==
    LET entry == acc.parsed[pos]
    IN  IF entry.members = None THEN entry
        ELSE [ entry EXCEPT
                 !.members = Some([ i \in 1..Len(entry.members[1]) |->
                                      IF << pos, i >> \in DOMAIN acc.slots
                                      THEN Some(acc.parsed[acc.slots[<< pos, i >>]])
                                      ELSE None ]) ]

\* a variant that sorts the oldest entry first
SortByDateAscending(val) ==
    StableSortDesc(val, [ i \in DOMAIN val |-> 0 - DateParse(val[i].effectiveDateTime) ])

\* val.sort((ent1, ent2) => Date.parse(ent2...) - Date.parse(ent1...))
SortByDate(val) ==
    StableSortDesc(val, [ i \in DOMAIN val |-> DateParse(val[i].effectiveDateTime) ])

\* loadPatientData from the resolved concepts on (lines 131-200): sortedObs
BuildSortedObs(entries, allConcepts) ==
    LET testConcepts ==
          SelectSeq(allConcepts,
                    LAMBDA x : x.conceptClass.name = "Test"
                               \/ x.conceptClass.name = "LabSet")
        testConceptUuids == [ i \in DOMAIN testConcepts |-> testConcepts[i].uuid ]
        testConceptNameMap ==
          FromEntries([ i \in DOMAIN testConcepts |->
                          << testConcepts[i].uuid, testConcepts[i].display >> ])
        metaInfomation == extractMetaInformation(testConcepts)
        acc0 == [ parsed |-> [ i \in DOMAIN entries |-> None ],
                  obsByClass |-> [ u \in Range(testConceptUuids) |-> << >> ],
                  singeEntries |-> << >>,
                  memberRefs |-> << >>,
                  slots |-> << >> ]
        acc1 == ForEachEntry(entries, 1, acc0, testConceptUuids,
                             testConceptNameMap, metaInfomation)
        acc2 == ForEachSingle(1, acc1)
        kept == SelectSeq(testConcepts, LAMBDA c : Len(acc2.obsByClass[c.uuid]) > 0)
        group(c) ==
          LET val == [ i \in DOMAIN acc2.obsByClass[c.uuid] |->
                         EntryObject(acc2, acc2.obsByClass[c.uuid][i]) ]
          IN  [ entries |-> SortByDate(val),
                type |-> c.conceptClass.display,
                uuid |-> c.uuid ]
    IN  FromEntries([ i \in DOMAIN kept |-> << kept[i].display, group(kept[i]) >> ])

\* the concept records loadPresentConcepts resolves to, all fetches succeeding
PresentConcepts(entries) ==
    LET uuids == PresentConceptUuids(entries)
    IN  [ i \in DOMAIN uuids |-> ConceptRecord(uuids[i]) ]

-----------------------------------------------------------------------------
(* The remote API: observations of the patients *)

T0800 == <<2024, 1, 5, 8, 0>>
T1430 == <<2024, 1, 5, 14, 30>>
T0915 == <<2024, 2, 1, 9, 15>>

\* patients whose aggregate is requested; p0 has no laboratory observation
Patients == { "p0", "p1" }
\* patients put into the cache directly
CachePatients == { "p1", "p2", "p3", "p4" }
\* patients with many observations, only ever given to loadObsEntries directly:
\* the number of observations of each
FetchTotals ==
    [ t0 |-> 0, t1 |-> 1, t100 |-> 100, t101 |-> 101, t250 |-> 250,
      t600 |-> 600, t601 |-> 601, t750 |-> 750 ]
FetchPatients == DOMAIN FetchTotals

\* the laboratory observations of a patient, newest first, in the given
\* version of the record (new observations make the next version)
Dataset(patient, version) ==
    CASE patient = "p0" -> << >>
      [] patient = "p1" ->
           LET first == << Obs(1, "cPanel", T1430, Some(<< Ref(2) >>), None),
                           Obs(2, "cTest", T1430, None, Some([ value |-> 7 ])) >>
           IN  IF version = 1 THEN first
               ELSE << Obs(3, "cTest", T0915, None, Some([ value |-> 95 ])),
                       Obs(4, "cMisc", T0915, None, Some([ value |-> 70 ])) >> \o first
      [] patient = "p2" ->
           << Obs(5, "cTest", T0800, None, Some([ value |-> 9 ])) >>
      [] patient = "p3" ->
           << Obs(6, "cTest", T0800, None, Some([ value |-> 11 ])) >>
      [] patient = "p4" ->
           << Obs(7, "cTest", T0800, None, Some([ value |-> 12 ])) >>
      [] OTHER ->
           [ k \in 1..FetchTotals[patient] |->
               Obs(1000 + k, "cTest", << 3000 - k, 1, 1, 0, 0 >>, None,
                   Some([ value |-> 7 ])) ]

LastVersion(patient) == IF patient = "p1" THEN 2 ELSE 1

\* the response to the page request at the given offset (_count = PAGE_SIZE,
\* _getpagesoffset = offset * PAGE_SIZE): the total and the resources of the
\* page; a bundle without results carries no entry.  Only the total of the
\* first page is ever read (responses[0].total): the other pages carry none here.
PageResponse(data, offset) ==
    LET first == offset * PAGE_SIZE + 1
        last == Min2((offset + 1) * PAGE_SIZE, Len(data))
    IN  [ total |-> IF offset = 0 THEN Some(Len(data)) ELSE None,
          entry |-> IF first > last THEN None ELSE Some(SubSeq(data, first, last)) ]

\* a variant that reads the identifier with optional chaining
firstEntryIdOrUndefined(entries) ==
    IF entries = << >> THEN Some("undefined") ELSE Some(entries[1].id)

\* entries[0].id of loadPatientData: None when reading it throws, entries[0]
\* being undefined
firstEntryId(entries) == IF entries = << >> THEN None ELSE Some(entries[1].id)

\* what getLatestObsUuid reads off the _count = 1 response:
\* entry?.[0]?.resource?.id
LatestObsUuid(data) == IF data = << >> THEN None ELSE Some(data[1].id)

-----------------------------------------------------------------------------
(* PageFetcher (part_000, fhirObservationRequests and loadObsEntries) *)

\* a variant that stops one request short
retrieveAllButOne(issued, length) ==
    issued \o [ i \in 1..(length - 1) |->
                  [ offset |-> Len(issued) + i - 1, status |-> "pending",
                    response |-> None ] ]

\* retrieveFromIterator(requests, length): the page requests issued so far
\* followed by `length` new ones; the generator hands out successive offsets.
\* Array.from({ length }) is empty for a length below 1.
retrieveFromIterator(issued, length) ==
    issued \o [ i \in 1..length |->
                  [ offset |-> Len(issued) + i - 1, status |-> "pending",
                    response |-> None ] ]

\* the state of Promise.allSettled over requests of the given statuses
PromiseAllSettled(statuses) ==
    IF \E i \in DOMAIN statuses : statuses[i] = "pending" THEN "pending"
    ELSE "resolved"

\* the state of Promise.all over requests of the given statuses
PromiseAll(statuses) ==
    IF \E i \in DOMAIN statuses : statuses[i] = "fail" THEN "rejected"
    ELSE IF \E i \in DOMAIN statuses : statuses[i] = "pending" THEN "pending"
    ELSE "resolved"

PageStatuses(pages) == [ i \in DOMAIN pages |-> pages[i].status ]

\* a variant that asks for every page of the total again
missingRequestsUncounted(total) == Ceil(total, PAGE_SIZE)

\* total > CHUNK_PREFETCH_COUNT * PAGE_SIZE: the number of requests of the
\* second burst, Math.ceil(total / PAGE_SIZE) - CHUNK_PREFETCH_COUNT
missingRequestsCount(total) == Ceil(total, PAGE_SIZE) - CHUNK_PREFETCH_COUNT

\* responses.slice(0, Math.ceil(total / PAGE_SIZE))
RetainedPages(responses, total) == Slice0(responses, Ceil(total, PAGE_SIZE))

\* flatMap(res => res.entry.map(e => e.resource)) throws on a response
\* without entry
FlattenThrows(responses) == \E i \in DOMAIN responses : responses[i].entry = None

\* a variant that concatenates the pages last page first
FlattenPagesReversed(responses) ==
    Flatten([ i \in DOMAIN responses |-> responses[Len(responses) + 1 - i].entry[1] ])

FlattenPages(responses) == Flatten([ i \in DOMAIN responses |-> responses[i].entry[1] ])

\* the responses of the page requests, all answered
Responses(pages) == [ i \in DOMAIN pages |-> pages[i].response[1] ]

-----------------------------------------------------------------------------
(* FreshnessCache (part_000, patientResultsDataCache) *)

\* The cache is the list of Object.entries(patientResultsDataCache): one
\* record [key, data, date, indicator] per patient, in key order.  Patient
\* identifiers are UUID strings, so the keys are in insertion order.

CacheKeys(cache) == { cache[i].key : i \in DOMAIN cache }

CacheRecordOf(cache, patientUuid) ==
    IF patientUuid \in CacheKeys(cache)
    THEN Some(cache[CHOOSE i \in DOMAIN cache : cache[i].key = patientUuid])
    ELSE None

\* a variant that adds a record also for a key already present
StoreRecordAppended(cache, record) == Append(cache, record)

\* patientResultsDataCache[patientUuid] = [data, Date.now(), indicator]:
\* an existing key keeps its place, a new key comes last
StoreRecord(cache, record) ==
    IF record.key \in CacheKeys(cache)
    THEN [ i \in DOMAIN cache |-> IF cache[i].key = record.key THEN record ELSE cache[i] ]
    ELSE Append(cache, record)

\* currentStateEntries.sort(([, [, dateA]], [, [, dateB]]) => dateB - dateA)
SortByCreation(currentStateEntries) ==
    StableSortDesc(currentStateEntries,
                   [ i \in DOMAIN currentStateEntries |-> currentStateEntries[i].date ])

addUserDataToCache(cache, patientUuid, data, indicator, dateNow) ==
    LET currentStateEntries ==
          StoreRecord(cache, [ key |-> patientUuid, data |-> data,
                               date |-> dateNow, indicator |-> indicator ])
    IN  IF Len(currentStateEntries) > CacheLimit
        THEN Slice0(SortByCreation(currentStateEntries), CacheLimit)
        ELSE currentStateEntries

\* a variant that finds no record, whatever the cache holds
hasNoData(cached) == FALSE

\* a variant that never returns the record found
getUserDataNever(cached, latest) == None

\* a variant that returns the record found without comparing the indicator
getUserDataUnprobed(cached, latest) ==
    IF cached # None THEN Some(cached[1].data) ELSE None

\* !!data of getUserDataFromCache: a record was found (an aggregate is an
\* object, hence truthy)
hasData(cached) == cached # None

\* what getUserDataFromCache returns once the probe has answered `latest`
getUserDataFromCache(cached, latest) ==
    IF hasData(cached) /\ latest = Some(cached[1].indicator)
    THEN Some(cached[1].data)
    ELSE None

-----------------------------------------------------------------------------
(* ConceptResolver (part_000, loadPresentConcepts) *)

\* a variant that forgets a promise that was rejected
conceptMemoizedUnlessFailed(status) == status \in { "pending", "ok" }

\* a variant that memoizes the fetched concept rather than the promise
conceptResultMemoized(status) == status = "ok"

\* conceptCache[conceptUuid] || ...: a promise is memoized, whatever its state
conceptMemoized(status) == status # "none"

RECURSIVE FetchMissing(_, _, _)
\* the memo and the count of network fetches after loadPresentConcepts has
\* mapped over the identifiers from index k on
FetchMissing(uuids, k, memo) ==
    IF k > Len(uuids) THEN memo
    ELSE LET u == uuids[k]
         IN  FetchMissing(uuids, k + 1,
               IF conceptMemoized(memo.status[u]) THEN memo
               ELSE [ status |-> [ memo.status EXCEPT ![u] = "pending" ],
                      fetches |-> [ memo.fetches EXCEPT ![u] = @ + 1 ] ])

-----------------------------------------------------------------------------
VARIABLES
    raw,            \* reconstruction alone: the raw entry list
    sortedObs,      \* reconstruction alone: Some(aggregate) once built
    reconStage,     \* "off" | "input" | "done"
    panelEntries,   \* timeline: the entries of the selected panel
    rowData,        \* timeline: Some(rows) once parseEntries returned
    timelineStage,  \* "off" | "input" | "done" | "threw"
    patientResultsDataCache,  \* the freshness cache, as its Object.entries
    now,            \* the last value Date.now() returned
    putOrder,       \* history: the patients put, each once, the latest put last
    conceptCache,   \* state of the promise memoized per concept: "none" |
                    \* "pending" | "ok" | "fail"
    conceptFetches, \* history: network fetches issued per concept
    remote,         \* the version of each patient's record on the server
    req,            \* the calls of loadPatientData / loadObsEntries
    assessMeta,     \* assessValue alone: the ObsMetaInfo it is curried with
    assessArg,      \* assessValue alone: the value assessed
    interpretation, \* assessValue alone: Some(result) once it returned
    sortedTimes,    \* parseTime alone: the timestamps given
    parsedTime,     \* parseTime alone: Some(result) once it returned
    hookArgs,       \* useTimelineData alone: what usePatientResultsData
                    \* returned, and the panel asked for
    timelineData    \* useTimelineData alone: Some(result) once it returned

reconVars == << raw, sortedObs, reconStage >>
timelineVars == << panelEntries, rowData, timelineStage >>
cacheVars == << patientResultsDataCache, now, putOrder >>
engineVars == << conceptCache, conceptFetches, remote, req >>
assessVars == << assessMeta, assessArg, interpretation >>
timeVars == << sortedTimes, parsedTime >>
hookVars == << hookArgs, timelineData >>
\* the variables of the display side
displayVars == << timelineVars, assessVars, timeVars, hookVars >>
vars == << reconVars, displayVars, cacheVars, engineVars >>

\* a call that has not been made
IdleCall ==
    [ pc |-> "idle", kind |-> "none", patient |-> "none",
      cached |-> None,       \* the cache record read by getUserDataFromCache
      probe |-> "none",      \* the probe request: "none" | "pending" | "ok" | "fail"
      latest |-> None,       \* what the probe answered
      get |-> "none",        \* history: "none" | "hit" | "miss" | "threw"
      pages |-> << >>,       \* the page requests issued, in offset order
      burst |-> 0,
      issued |-> << >>,      \* history: the offsets of the page requests issued
      entries |-> << >>,     \* the flattened raw entries
      awaited |-> << >>,     \* the concepts loadPresentConcepts waits for
      returned |-> None,     \* the value the call resolved to
      error |-> "none",      \* "none" | "NetworkFailure" | "TypeError"
      probes |-> 0,          \* history: probe requests issued by the call
      puts |-> 0 ]           \* history: cache writes made by the call

ReconOff == raw = << >> /\ sortedObs = None /\ reconStage = "off"
TimelineOff == panelEntries = << >> /\ rowData = None /\ timelineStage = "off"
AssessOff == assessMeta = None /\ assessArg = None /\ interpretation = None
TimeOff == sortedTimes = << >> /\ parsedTime = None
HookOff == hookArgs = None /\ timelineData = None
DisplayOff == TimelineOff /\ AssessOff /\ TimeOff /\ HookOff
CacheEmpty == patientResultsDataCache = << >> /\ now = 0 /\ putOrder = << >>
EngineOff ==
    /\ conceptCache = [ c \in ConceptUuids |-> "none" ]
    /\ conceptFetches = [ c \in ConceptUuids |-> 0 ]
    /\ remote = [ p \in Patients |-> 1 ]
    /\ req = [ r \in 1..MaxRequests |-> IdleCall ]

-----------------------------------------------------------------------------
(* Reconstruction on its own: loadPatientData from the fetched entries on *)

\* member lists the raw entry id may declare: never itself; the identifier
\* MaxEntries + 1 is never present in the raw list
HasMemberChoices(id) ==
    { hm \in { None, Some(<< Ref(2) >>), Some(<< Ref(3) >>),
               Some(<< Ref(3), Ref(2) >>),
               Some(<< Ref(2), Ref(MaxEntries + 1) >>) } :
        hm = None \/ \A i \in DOMAIN hm[1] : RefId(hm[1][i]) # id }

\* the raw entries with identifier id
ObsChoices(id) ==
    { Obs(id, code, time, hm,
          IF hm = None THEN Some([ value |-> id + 6 ]) ELSE None) :
        code \in ConceptUuids,
        time \in { <<2024, 1, 5, 8, 0>>, <<2024, 1, 5, 14, 30>> },
        hm \in HasMemberChoices(id) }

RawLists ==
    UNION { { s \in [ 1..n -> UNION { ObsChoices(id) : id \in 1..n } ] :
                \A i \in 1..n : s[i].id = i } : n \in 1..MaxEntries }

ReconInit ==
    /\ raw \in RawLists
    /\ sortedObs = None
    /\ reconStage = "input"
    /\ DisplayOff /\ CacheEmpty /\ EngineOff

\* loadPatientData's reconstruction of the raw list
Reconstruct ==
    /\ reconStage = "input"
    /\ sortedObs' = Some(BuildSortedObs(raw, PresentConcepts(raw)))
    /\ reconStage' = "done"
    /\ UNCHANGED << raw, displayVars, cacheVars, engineVars >>

ReconNext == Reconstruct

SpecRecon == ReconInit /\ [][ReconNext]_vars

-----------------------------------------------------------------------------
(* Timeline pivot (useTimelineData.ts, parseEntries) *)

\* the members of one name among the filled slots of an entry, in slot order
MembersNamed(entry, name) ==
    SelectSeq(entry.members[1], LAMBDA slot : slot # None /\ slot[1].name = name)

\* parseEntries of entries that all carry a member array.  members.forEach
\* skips the holes; row[index] = member grows the row to index + 1 and leaves
\* holes below; [...value] turns the holes into undefined, keeping the length.
parseEntries(entries) ==
    LET names == UNION { { slot[1].name : slot \in Range(entries[i].members[1]) \ { None } } :
                           i \in DOMAIN entries }
        indexes(name) == { i \in DOMAIN entries : MembersNamed(entries[i], name) # << >> }
    IN  [ name \in names |->
            [ i \in 1..Max(indexes(name)) |->
                IF i \in indexes(name)
                THEN LET ms == MembersNamed(entries[i], name) IN ms[Len(ms)]
                ELSE None ] ]

\* the member arrays an entry of the selected group may carry; None is an
\* entry without a member array (a single test)
MemberShapes ==
    { None } \cup
    { Some(m) : m \in UNION { [ 1..n -> { "hole", "Hgb", "WBC" } ] : n \in 0..2 } }

\* the entry at position i with the given shape: members are told apart by id
PanelEntry(i, shape) ==
    [ id |-> i,
      effectiveDateTime |-> <<2024, 1, i, 8, 0>>,
      members |-> IF shape = None THEN None
                  ELSE Some([ j \in DOMAIN shape[1] |->
                                IF shape[1][j] = "hole" THEN None
                                ELSE Some([ id |-> 10 * i + j,
                                            name |-> shape[1][j] ]) ]) ]

TimelineInit ==
    /\ panelEntries \in
         UNION { { [ i \in 1..n |-> PanelEntry(i, shapes[i]) ] :
                     shapes \in [ 1..n -> MemberShapes ] } : n \in 0..MaxPanelEntries }
    /\ rowData = None
    /\ timelineStage = "input"
    /\ AssessOff /\ TimeOff /\ HookOff
    /\ ReconOff /\ CacheEmpty /\ EngineOff

\* rowData = parseEntries(entries); members.forEach throws on an entry that
\* has no member array
ParseEntries ==
    /\ timelineStage = "input"
    /\ IF \E i \in DOMAIN panelEntries : panelEntries[i].members = None
       THEN /\ timelineStage' = "threw"
            /\ rowData' = None
       ELSE /\ timelineStage' = "done"
            /\ rowData' = Some(parseEntries(panelEntries))
    /\ UNCHANGED << panelEntries, assessVars, timeVars, hookVars, reconVars,
                    cacheVars, engineVars >>

TimelineNext == ParseEntries

SpecTimeline == TimelineInit /\ [][TimelineNext]_vars

-----------------------------------------------------------------------------
(* The freshness cache on its own: direct calls of addUserDataToCache *)

\* Date.now() never runs backwards; two calls may read the same millisecond
ClockReadings == { t \in { now, now + 1 } : t <= MaxClock }

\* the patient becomes the latest put
Touch(order, patient) == Append(SelectSeq(order, LAMBDA q : q # patient), patient)

CacheInit == CacheEmpty /\ ReconOff /\ DisplayOff /\ EngineOff

\* addUserDataToCache(patient, aggregate of the record, newest identifier)
Put(patient, version) ==
    LET data == Dataset(patient, version)
    IN  /\ \E t \in ClockReadings :
             /\ now' = t
             /\ patientResultsDataCache' =
                  addUserDataToCache(patientResultsDataCache, patient,
                                     BuildSortedObs(data, PresentConcepts(data)),
                                     data[1].id, t)
        /\ putOrder' = Touch(putOrder, patient)
        /\ UNCHANGED << reconVars, displayVars, engineVars >>

CacheNext == \E patient \in CachePatients : \E version \in 1..LastVersion(patient) :
                 Put(patient, version)

SpecCache == CacheInit /\ [][CacheNext]_vars

-----------------------------------------------------------------------------
(* The engine: loadPatientData and loadObsEntries against the remote API *)

EngineInit == EngineOff /\ CacheEmpty /\ ReconOff /\ DisplayOff

\* calls are made in the order of their numbers
MayStart(r) ==
    /\ req[r].pc = "idle"
    /\ IF r = 1 THEN TRUE ELSE req[r - 1].pc # "idle"

\* loadObsEntries up to its first await: the first burst is issued
StartLoadObs(call) ==
    LET pages == retrieveFromIterator(<< >>, CHUNK_PREFETCH_COUNT)
    IN  [ call EXCEPT !.pc = "pages", !.burst = 1, !.pages = pages,
                      !.issued = [ i \in DOMAIN pages |-> pages[i].offset ] ]

\* the call ends: its local variables are gone, the histories stay
Settle(call, pc, error, returned) ==
    [ call EXCEPT !.pc = pc, !.error = error, !.returned = returned,
                  !.pages = << >>, !.entries = << >>, !.awaited = << >> ]

\* a direct call of loadObsEntries(patient)
LoadObsEntries(r, patient) ==
    /\ MayStart(r)
    /\ req' = [ req EXCEPT ![r] =
                  StartLoadObs([ IdleCall EXCEPT !.kind = "obs", !.patient = patient ]) ]
    /\ UNCHANGED << conceptCache, conceptFetches, remote, cacheVars, reconVars,
                    displayVars >>

\* loadPatientData(patient) up to its first request: getUserDataFromCache
\* reads the record and probes the server when it found one; without a record
\* it returns undefined and loadObsEntries starts
LoadPatientData(r, patient) ==
    /\ MayStart(r)
    /\ LET cached == CacheRecordOf(patientResultsDataCache, patient)
           call == [ IdleCall EXCEPT !.kind = "agg", !.patient = patient,
                                     !.cached = cached ]
       IN  req' = [ req EXCEPT ![r] =
                      IF hasData(cached)
                      THEN [ call EXCEPT !.pc = "probe", !.probe = "pending",
                                         !.probes = 1 ]
                      ELSE StartLoadObs([ call EXCEPT !.get = "miss" ]) ]
    /\ UNCHANGED << conceptCache, conceptFetches, remote, cacheVars, reconVars,
                    displayVars >>

\* the probe answers: getUserDataFromCache returns, and loadPatientData
\* returns the cached aggregate or starts loadObsEntries
ProbeResolve(r) ==
    /\ req[r].pc = "probe"
    /\ LET latest == LatestObsUuid(Dataset(req[r].patient, remote[req[r].patient]))
           data == getUserDataFromCache(req[r].cached, latest)
           call == [ req[r] EXCEPT !.probe = "ok", !.latest = latest ]
       IN  req' = [ req EXCEPT ![r] =
                      IF data # None
                      THEN Settle([ call EXCEPT !.get = "hit" ], "done", "none", data)
                      ELSE StartLoadObs([ call EXCEPT !.get = "miss" ]) ]
    /\ UNCHANGED << conceptCache, conceptFetches, remote, cacheVars, reconVars,
                    displayVars >>

\* the probe request fails: the rejection passes through getUserDataFromCache
\* and loadPatientData
ProbeReject(r) ==
    /\ req[r].pc = "probe"
    /\ req' = [ req EXCEPT ![r] =
                  Settle([ @ EXCEPT !.probe = "fail", !.get = "threw" ],
                         "failed", "NetworkFailure", None) ]
    /\ UNCHANGED << conceptCache, conceptFetches, remote, cacheVars, reconVars,
                    displayVars >>

\* the record of the patient of call r as the server holds it
RemoteData(r) ==
    IF req[r].patient \in Patients
    THEN Dataset(req[r].patient, remote[req[r].patient])
    ELSE Dataset(req[r].patient, 1)

\* loadObsEntries once Promise.all of a burst has resolved
AfterBurst(call, memo) ==
    LET responses == Responses(call.pages)
        total == responses[1].total[1]
        retained == RetainedPages(responses, total)
    IN  IF call.burst = 1 /\ total > CHUNK_PREFETCH_COUNT * PAGE_SIZE
        THEN LET pages == retrieveFromIterator(call.pages, missingRequestsCount(total))
             IN  [ call |-> [ call EXCEPT !.burst = 2, !.pages = pages,
                                !.issued = [ i \in DOMAIN pages |-> pages[i].offset ] ],
                   memo |-> memo ]
        ELSE IF FlattenThrows(retained)
        THEN [ call |-> Settle(call, "failed", "TypeError", None), memo |-> memo ]
        ELSE IF call.kind = "obs"
        THEN [ call |-> Settle(call, "done", "none", Some(FlattenPages(retained))),
               memo |-> memo ]
        ELSE \* loadPatientData goes on to loadPresentConcepts(entries)
             LET entries == FlattenPages(retained)
                 uuids == PresentConceptUuids(entries)
             IN  [ call |-> [ call EXCEPT !.pc = "concepts", !.entries = entries,
                                          !.awaited = uuids ],
                   memo |-> FetchMissing(uuids, 1, memo) ]

\* a page request of call r is answered; when it was the last one of the
\* burst the call goes on
PageResolve(r, i) ==
    /\ req[r].pc = "pages"
    /\ i \in DOMAIN req[r].pages
    /\ req[r].pages[i].status = "pending"
    /\ LET response == PageResponse(RemoteData(r), req[r].pages[i].offset)
           call == [ req[r] EXCEPT !.pages[i] =
                       [ @ EXCEPT !.status = "ok", !.response = Some(response) ] ]
           memo == [ status |-> conceptCache, fetches |-> conceptFetches ]
           after == IF PromiseAll(PageStatuses(call.pages)) = "resolved"
                    THEN AfterBurst(call, memo)
                    ELSE [ call |-> call, memo |-> memo ]
       IN  /\ req' = [ req EXCEPT ![r] = after.call ]
           /\ conceptCache' = after.memo.status
           /\ conceptFetches' = after.memo.fetches
    /\ UNCHANGED << remote, cacheVars, reconVars, displayVars >>

\* a page request of call r fails: Promise.all rejects at once
PageReject(r, i) ==
    /\ req[r].pc = "pages"
    /\ i \in DOMAIN req[r].pages
    /\ req[r].pages[i].status = "pending"
    /\ LET call == [ req[r] EXCEPT !.pages[i].status = "fail" ]
       IN  req' = [ req EXCEPT ![r] =
                      IF PromiseAll(PageStatuses(call.pages)) = "rejected"
                      THEN Settle(call, "failed", "NetworkFailure", None)
                      ELSE call ]
    /\ UNCHANGED << conceptCache, conceptFetches, remote, cacheVars, reconVars,
                    displayVars >>

\* the fetch of a concept is answered / fails; the promise stays memoized
ConceptResolve(c) ==
    /\ conceptCache[c] = "pending"
    /\ conceptCache' = [ conceptCache EXCEPT ![c] = "ok" ]
    /\ UNCHANGED << conceptFetches, remote, req, cacheVars, reconVars, displayVars >>

ConceptReject(c) ==
    /\ conceptCache[c] = "pending"
    /\ conceptCache' = [ conceptCache EXCEPT ![c] = "fail" ]
    /\ UNCHANGED << conceptFetches, remote, req, cacheVars, reconVars, displayVars >>

\* Promise.all of loadPresentConcepts has settled for call r: on a rejection
\* loadPatientData rejects; else it reconstructs the aggregate, reads
\* entries[0].id (which throws without entries) and puts the result
ConceptsSettled(r) ==
    /\ req[r].pc = "concepts"
    /\ LET settled == PromiseAll([ i \in DOMAIN req[r].awaited |->
                                     conceptCache[req[r].awaited[i]] ])
           entries == req[r].entries
           allConcepts == [ i \in DOMAIN req[r].awaited |->
                              ConceptRecord(req[r].awaited[i]) ]
       IN  /\ settled # "pending"
           /\ IF settled = "rejected"
              THEN /\ req' = [ req EXCEPT ![r] =
                                 Settle(@, "failed", "NetworkFailure", None) ]
                   /\ UNCHANGED cacheVars
              ELSE IF firstEntryId(entries) = None
              THEN /\ req' = [ req EXCEPT ![r] =
                                 Settle(@, "failed", "TypeError", None) ]
                   /\ UNCHANGED cacheVars
              ELSE \E t \in ClockReadings :
                     LET data == BuildSortedObs(entries, allConcepts)
                     IN  /\ now' = t
                         /\ patientResultsDataCache' =
                              addUserDataToCache(patientResultsDataCache,
                                                 req[r].patient, data,
                                                 firstEntryId(entries)[1], t)
                         /\ putOrder' = Touch(putOrder, req[r].patient)
                         /\ req' = [ req EXCEPT ![r] =
                                       Settle([ @ EXCEPT !.puts = @ + 1 ],
                                              "done", "none", Some(data)) ]
    /\ UNCHANGED << conceptCache, conceptFetches, remote, reconVars, displayVars >>

\* a new laboratory observation of the patient is recorded on the server
NewObservation(patient) ==
    /\ remote[patient] < LastVersion(patient)
    /\ remote' = [ remote EXCEPT ![patient] = @ + 1 ]
    /\ UNCHANGED << conceptCache, conceptFetches, req, cacheVars, reconVars,
                    displayVars >>

Next ==
    \/ \E r \in 1..MaxRequests : \E patient \in Patients : LoadPatientData(r, patient)
    \/ \E r \in 1..MaxRequests : ProbeResolve(r)
    \/ \E r \in 1..MaxRequests : ProbeReject(r)
    \/ \E r \in 1..MaxRequests : \E i \in 1..CHUNK_PREFETCH_COUNT : PageResolve(r, i)
    \/ \E r \in 1..MaxRequests : \E i \in 1..CHUNK_PREFETCH_COUNT : PageReject(r, i)
    \/ \E c \in ConceptUuids : ConceptResolve(c)
    \/ \E c \in ConceptUuids : ConceptReject(c)
    \/ \E r \in 1..MaxRequests : ConceptsSettled(r)
    \/ \E patient \in Patients : NewObservation(patient)

Spec == EngineInit /\ [][Next]_vars

\* one direct call of loadObsEntries for a patient of any size
FetchNext ==
    \/ \E patient \in FetchPatients : LoadObsEntries(1, patient)
    \/ \E i \in 1..(2 * CHUNK_PREFETCH_COUNT) : PageResolve(1, i)
    \/ \E i \in 1..(2 * CHUNK_PREFETCH_COUNT) : PageReject(1, i)

SpecFetch == EngineInit /\ [][FetchNext]_vars

-----------------------------------------------------------------------------
(* parseTime on its own *)

\* a timestamp string as its characters, grouped: the runs of characters
\* between delimiters, and the delimiters themselves
Stamp(year, month, day, hour, minutes) ==
    << year, "-", month, "-", day, "T", hour, ":", minutes >>

\* the character class of datetime.split(/[-,T,:]/)
Delimiters == { "-", ",", "T", ":" }

\* datetime.split(/[-,T,:]/): what stands between the delimiters
Split(datetime) == SelectSeq(datetime, LAMBDA part : part \notin Delimiters)

\* element k of a destructured array: undefined past its end
Destructured(parts, k) == IF k <= Len(parts) THEN parts[k] ELSE "undefined"

\* a variant that finds the day column by its month/day label alone
sameDayAnyYear(column, year, date) == date = column.day

\* the predicate of dayColumns.find
sameDay(column, year, date) == date = column.day /\ year = column.year

\* columns after `find(...) ? size++ : push(...)`: found[i] is the value of
\* the predicate on column i, fresh is the column pushed when none is found
CountInto(columns, found, fresh) ==
    IF \E i \in DOMAIN columns : found[i]
    THEN LET first == CHOOSE i \in DOMAIN columns :
                        found[i] /\ \A j \in 1..(i - 1) : ~found[j]
         IN  [ columns EXCEPT ![first].size = @ + 1 ]
    ELSE Append(columns, fresh)

RECURSIVE ForEachTime(_, _, _)
\* the body of sortedTimes.forEach from index k on
ForEachTime(times, k, acc) ==
    IF k > Len(times) THEN acc
    ELSE LET parts == Split(times[k])
             year == Destructured(parts, 1)
             date == << Destructured(parts, 2), "/", Destructured(parts, 3) >>
             time == << Destructured(parts, 4), ":", Destructured(parts, 5) >>
         IN  ForEachTime(times, k + 1,
               [ yearColumns |->
                   CountInto(acc.yearColumns,
                             [ i \in DOMAIN acc.yearColumns |->
                                 year = acc.yearColumns[i].year ],
                             [ year |-> year, size |-> 1 ]),
                 dayColumns |->
                   CountInto(acc.dayColumns,
                             [ i \in DOMAIN acc.dayColumns |->
                                 sameDay(acc.dayColumns[i], year, date) ],
                             [ day |-> date, year |-> year, size |-> 1 ]),
                 timeColumns |-> Append(acc.timeColumns, time) ])

parseTime(times) ==
    LET columns == ForEachTime(times, 1,
                     [ yearColumns |-> << >>, dayColumns |-> << >>,
                       timeColumns |-> << >> ])
    IN  [ yearColumns |-> columns.yearColumns, dayColumns |-> columns.dayColumns,
          timeColumns |-> columns.timeColumns, sortedTimes |-> times ]

\* the timestamps an entry may carry: to the minute, or with seconds
StampChoices ==
    { Stamp("2024", "01", "05", "08", "00"),
      Stamp("2024", "01", "05", "14", "30"),
      Stamp("2023", "01", "05", "08", "00"),
      Stamp("2024", "02", "01", "09", "15"),
      Stamp("2023", "12", "31", "23", "59") \o << ":", "58" >> }

TimeInit ==
    /\ sortedTimes \in UNION { [ 1..n -> StampChoices ] : n \in 0..MaxTimes }
    /\ parsedTime = None
    /\ TimelineOff /\ AssessOff /\ HookOff
    /\ ReconOff /\ CacheEmpty /\ EngineOff

\* parseTime(times)
ParseTime ==
    /\ parsedTime = None
    /\ parsedTime' = Some(parseTime(sortedTimes))
    /\ UNCHANGED << sortedTimes, timelineVars, assessVars, hookVars, reconVars,
                    cacheVars, engineVars >>

TimeNext == ParseTime

SpecTime == TimeInit /\ [][TimeNext]_vars

-----------------------------------------------------------------------------
(* useTimelineData on its own *)

\* the string of a number, in two digits at least
TwoDigits(n) == IF n < 10 THEN "0" \o ToString(n) ELSE ToString(n)

\* the effectiveDateTime string of an entry
StampOf(t) ==
    Stamp(ToString(t[1]), TwoDigits(t[2]), TwoDigits(t[3]), TwoDigits(t[4]),
          TwoDigits(t[5]))

\* what useTimelineData returns, or that it threw
TimelineResult(parsed, rows, panelName, loaded, error, threw) ==
    [ data |-> [ parsedTime |-> parsed, rowData |-> rows, panelName |-> panelName ],
      loaded |-> loaded, error |-> error, threw |-> threw ]

\* a variant that passes the upstream error on when no panel is found
panelMissingUnsignalled(loaded, error) ==
    TimelineResult(None, None, None, loaded, error, FALSE)

\* the result when the panel is found in no group
panelMissing(loaded, error) ==
    TimelineResult(None, None, None, loaded, Some("panel data missing"), FALSE)

\* the body of useMemo
useTimelineData(args) ==
    IF args.sortedObs = None \/ ~args.loaded \/ args.error # None
    THEN TimelineResult(None, None, None, args.loaded, args.error, FALSE)
    ELSE LET groups == args.sortedObs[1]
             found == { name \in DOMAIN groups :
                          groups[name].uuid = args.panelUuid }
         IN  IF found = { } THEN panelMissing(args.loaded, args.error)
             ELSE LET panelName == CHOOSE name \in found : TRUE
                      entries == groups[panelName].entries
                      times == [ i \in DOMAIN entries |->
                                   StampOf(entries[i].effectiveDateTime) ]
                  IN  IF \E i \in DOMAIN entries : entries[i].members = None
                      THEN TimelineResult(None, None, None, FALSE, None, TRUE)
                      ELSE TimelineResult(Some(parseTime(times)),
                                          Some(parseEntries(entries)),
                                          Some(panelName), TRUE, None, FALSE)

\* what usePatientResultsData may hand over: no aggregate or one of two,
\* loaded or not, with or without an error
HookAggregates ==
    { None } \cup
    { Some(BuildSortedObs(Dataset("p1", v), PresentConcepts(Dataset("p1", v)))) :
        v \in 1..LastVersion("p1") }
HookErrors == { None, Some("NetworkFailure"), Some("TypeError") }
PanelUuids == ConceptUuids \cup { "cUnknown" }

HookInit ==
    /\ hookArgs \in
         { Some([ sortedObs |-> agg, loaded |-> loaded, error |-> error,
                  panelUuid |-> panelUuid ]) :
             agg \in HookAggregates, loaded \in BOOLEAN, error \in HookErrors,
             panelUuid \in PanelUuids }
    /\ timelineData = None
    /\ TimelineOff /\ AssessOff /\ TimeOff
    /\ ReconOff /\ CacheEmpty /\ EngineOff

\* useTimelineData(patientUuid, panelUuid) once usePatientResultsData returned
UseTimelineData ==
    /\ timelineData = None
    /\ timelineData' = Some(useTimelineData(hookArgs[1]))
    /\ UNCHANGED << hookArgs, timelineVars, assessVars, timeVars, reconVars,
                    cacheVars, engineVars >>

HookNext == UseTimelineData

SpecHook == HookInit /\ [][HookNext]_vars

-----------------------------------------------------------------------------
(* assessValue on its own *)

\* the bounds a concept may carry: null, or one of three levels
BoundChoices == { None, Some(80), Some(90), Some(100) }
\* the values assessed: on, between and beyond the levels
ValueChoices == { 70, 80, 85, 90, 95, 100, 105 }

AssessInit ==
    /\ assessMeta \in
         { Some(MetaOf([ hiAbsolute |-> b[1], hiCritical |-> b[2], hiNormal |-> b[3],
                         lowAbsolute |-> b[4], lowCritical |-> b[5],
                         lowNormal |-> b[6] ])) : b \in [ 1..6 -> BoundChoices ] }
    /\ assessArg \in { Some(v) : v \in ValueChoices }
    /\ interpretation = None
    /\ TimelineOff /\ TimeOff /\ HookOff
    /\ ReconOff /\ CacheEmpty /\ EngineOff

\* meta.assessValue(value)
AssessValue ==
    /\ interpretation = None
    /\ interpretation' = Some(assessValue(assessMeta[1], assessArg[1]))
    /\ UNCHANGED << assessMeta, assessArg, timelineVars, timeVars, hookVars,
                    reconVars, cacheVars, engineVars >>

AssessNext == AssessValue

SpecAssess == AssessInit /\ [][AssessNext]_vars

-----------------------------------------------------------------------------
(* Claims about the reconstruction, checked under SpecRecon *)

\* the category is one of the recognized Test / LabSet concepts
Recognized(code) == ConceptRecord(code).conceptClass.name \in { "Test", "LabSet" }

\* every entry of every group of an aggregate
GroupEntries(agg) ==
    UNION { Range(agg[name].entries) : name \in DOMAIN agg }

\* the injective rearrangements of a sequence
Rearrangements(s) ==
    { [ i \in DOMAIN s |-> s[p[i]] ] :
        p \in { q \in [ DOMAIN s -> DOMAIN s ] :
                  \A i, j \in DOMAIN s : q[i] = q[j] => i = j } }

\* the raw entry at position k declares id as its i-th member, and is retained
Declares(k, i, id) ==
    /\ Recognized(raw[k].code)
    /\ raw[k].hasMember # None
    /\ i \in DOMAIN raw[k].hasMember[1]
    /\ RefId(raw[k].hasMember[1][i]) = id

\* ... and no later declaration of id exists (in raw order, then slot order)
LastDeclaration(k, i, id) ==
    /\ Declares(k, i, id)
    /\ \A k2 \in DOMAIN raw : \A i2 \in 1..(MaxEntries + 1) :
         Declares(k2, i2, id) => (k2 < k \/ (k2 = k /\ i2 <= i))

\* C7: reconstruction is order-independent: every permutation of the raw list
\* reconstructs to the same group names with identical sorted entry lists and
\* identical member slots.
C7_OrderIndependent ==
    reconStage = "done" =>
        \A perm \in Rearrangements(raw) :
            BuildSortedObs(perm, PresentConcepts(perm)) = sortedObs[1]

\* C8 as claimed: the member array of a retained panel has the declared length,
\* slot i holds the entry with the i-th declared identifier whenever that entry
\* is present and recognized in the raw set, and is absent otherwise.
C8_SlotHoldsEveryPresentMember ==
    reconStage = "done" =>
        \A panel \in { e \in GroupEntries(sortedObs[1]) : e.members # None } :
            /\ Len(panel.members[1]) = Len(panel.hasMember[1])
            /\ \A i \in DOMAIN panel.members[1] :
                 LET id == RefId(panel.hasMember[1][i])
                     slot == panel.members[1][i]
                 IN  IF \E k \in DOMAIN raw : raw[k].id = id /\ Recognized(raw[k].code)
                     THEN slot # None /\ slot[1].id = id
                     ELSE slot = None

\* C8 as amended: the member array of a retained panel has the declared
\* length; slot i holds the entry with the i-th declared identifier when that
\* entry is present, recognized and a single test (it declares no members
\* itself) and this slot is the last declaration of the identifier in raw
\* order; every other slot is absent.  No slot is removed or shifted.
C8_SlotHoldsSingleMember ==
    reconStage = "done" =>
        \A panel \in { e \in GroupEntries(sortedObs[1]) : e.members # None } :
            /\ Len(panel.members[1]) = Len(panel.hasMember[1])
            /\ \A i \in DOMAIN panel.members[1] :
                 LET id == RefId(panel.hasMember[1][i])
                     slot == panel.members[1][i]
                     pos == CHOOSE k \in DOMAIN raw : raw[k].id = panel.id
                 IN  IF /\ \E k \in DOMAIN raw :
                              /\ raw[k].id = id
                              /\ Recognized(raw[k].code)
                              /\ raw[k].hasMember = None
                        /\ LastDeclaration(pos, i, id)
                     THEN /\ slot # None
                          /\ slot[1].id = id
                          /\ slot[1].members = None
                     ELSE slot = None

\* a panel whose first reference is unresolved and whose second is resolved
C8_Witness ==
    /\ reconStage = "done"
    /\ \E panel \in GroupEntries(sortedObs[1]) :
         /\ panel.members # None
         /\ Len(panel.members[1]) = 2
         /\ panel.members[1][1] = None
         /\ panel.members[1][2] # None

\* the timestamps of a group's entries never increase along the list
Descending(entries, strict) ==
    \A i \in 1..(Len(entries) - 1) :
        LET a == DateParse(entries[i].effectiveDateTime)
            b == DateParse(entries[i + 1].effectiveDateTime)
        IN  IF strict THEN a > b ELSE a >= b

-----------------------------------------------------------------------------
(* Claims about the timeline pivot, checked under SpecTimeline *)

\* C10: every row of the pivot is as long as the entry list of the selected
\* panel; position i holds the member of that name of entry i, or the absent
\* marker when entry i has no member of that name.
C10_RowsAlignedWithEntries ==
    timelineStage = "done" =>
        \A name \in DOMAIN rowData[1] :
            LET row == rowData[1][name]
            IN  /\ Len(row) = Len(panelEntries)
                /\ \A i \in DOMAIN row :
                     IF MembersNamed(panelEntries[i], name) = << >>
                     THEN row[i] = None
                     ELSE row[i] \in Range(MembersNamed(panelEntries[i], name))

-----------------------------------------------------------------------------
(* Claims about the freshness cache, checked under SpecCache *)

\* the last k elements of a sequence, as a set
LastOf(order, k) == { order[i] : i \in (Len(order) - k + 1)..Len(order) }

\* C2: after any sequence of puts the cache holds exactly the min(3, n) most
\* recently put patients, n being the number of distinct patients put so far;
\* the record just put is never the one evicted, also when successive puts
\* read the same clock value.
C2_KeepsMostRecentlyPut ==
    LET k == Min2(CacheLimit, Len(putOrder))
    IN  /\ Len(patientResultsDataCache) = k
        /\ CacheKeys(patientResultsDataCache) = LastOf(putOrder, k)

-----------------------------------------------------------------------------
(* Claims about loadObsEntries, checked under SpecFetch *)

\* C1 as claimed: a run for a patient of at most 600 observations issues
\* exactly ceil(total / 100) page requests.
C1_IssuesCeilTotalRequests ==
    \A r \in 1..MaxRequests :
        (/\ req[r].kind = "obs"
         /\ req[r].pc = "done"
         /\ FetchTotals[req[r].patient] <= CHUNK_PREFETCH_COUNT * PAGE_SIZE)
        => Len(req[r].issued) = Ceil(FetchTotals[req[r].patient], PAGE_SIZE)

\* C1 as amended: a run for a patient of at most 600 observations issues
\* exactly 6 page requests, those of offsets 0 to 5, whatever the total is;
\* the result holds the entries of the first ceil(total / 100) responses.
C1_IssuesPrefetchWindow ==
    \A r \in 1..MaxRequests :
        (/\ req[r].kind = "obs"
         /\ req[r].pc = "done"
         /\ FetchTotals[req[r].patient] <= CHUNK_PREFETCH_COUNT * PAGE_SIZE)
        => /\ req[r].issued = [ i \in 1..CHUNK_PREFETCH_COUNT |-> i - 1 ]
           /\ Len(req[r].returned[1]) = FetchTotals[req[r].patient]

\* a finished run for the patient of 250 observations
C1_Witness ==
    \E r \in 1..MaxRequests :
        /\ req[r].kind = "obs"
        /\ req[r].pc = "done"
        /\ req[r].patient = "t250"
        /\ Len(req[r].issued) = CHUNK_PREFETCH_COUNT

-----------------------------------------------------------------------------
(* Claims about the engine, checked under Spec *)

\* C3: get returns a cached aggregate only if it found a record for the
\* patient and its probe answered the record's stored indicator; whenever the
\* probe answers something else, get returns absent although a record exists.
C3_HitRequiresProbeAgreement ==
    \A r \in 1..MaxRequests :
        /\ req[r].get = "hit" =>
             /\ req[r].cached # None
             /\ req[r].probe = "ok"
             /\ req[r].latest = Some(req[r].cached[1].indicator)
             /\ req[r].returned = Some(req[r].cached[1].data)
        /\ (/\ req[r].cached # None
            /\ req[r].probe = "ok"
            /\ req[r].latest # Some(req[r].cached[1].indicator))
           => req[r].get = "miss"

\* a get that found a record whose indicator the probe did not confirm
C3_Witness ==
    \E r \in 1..MaxRequests :
        /\ req[r].cached # None
        /\ req[r].probe = "ok"
        /\ req[r].latest # Some(req[r].cached[1].indicator)
        /\ req[r].get = "miss"

\* C4 as claimed: every get issues the probe before it returns, in every
\* state of the cache.
C4_EveryGetProbes ==
    \A r \in 1..MaxRequests : req[r].get # "none" => req[r].probes >= 1

\* C4 as amended: a get that finds a record for the patient issues exactly one
\* probe and returns only once it is answered, also for a nominal hit; a get
\* that finds no record returns absent without a probe.
C4_GetProbesWhenRecordFound ==
    \A r \in 1..MaxRequests :
        /\ req[r].kind = "agg" =>
             req[r].probes = (IF req[r].cached # None THEN 1 ELSE 0)
        /\ (req[r].get # "none" /\ req[r].cached # None) =>
             req[r].probe \in { "ok", "fail" }
        /\ req[r].get = "hit" => req[r].probe = "ok"

\* a nominal hit, after its probe
C4_Witness ==
    \E r \in 1..MaxRequests : req[r].get = "hit" /\ req[r].probes = 1

\* call r publishes: it was waiting for its concepts, every page request and
\* every concept request it waited for has succeeded, and it ends done
PublishStep(r) ==
    /\ req[r].pc = "concepts"
    /\ req[r].probe # "fail"
    /\ \A i \in DOMAIN req[r].pages : req[r].pages[i].status = "ok"
    /\ \A i \in DOMAIN req[r].awaited : conceptCache[req[r].awaited[i]] = "ok"
    /\ req'[r].pc = "done"
    /\ req'[r].puts = req[r].puts + 1

\* in this state call r has seen one of its requests fail
SeesFailure(r) ==
    \/ req[r].probe = "fail"
    \/ \E i \in DOMAIN req[r].pages : req[r].pages[i].status = "fail"
    \/ /\ req[r].pc = "concepts"
       /\ \E i \in DOMAIN req[r].awaited : conceptCache[req[r].awaited[i]] = "fail"

\* C5: no partial result is published.  The cache changes only in a step in
\* which a call publishes, after all its page and concept requests succeeded;
\* a call one of whose requests failed ends failed, with the failure as its
\* outcome, and never writes the cache.
C5_NoPartialResultPublished ==
    /\ [](\A r \in 1..MaxRequests :
            /\ req[r].pc = "failed" =>
                 req[r].puts = 0 /\ req[r].returned = None /\ req[r].error # "none"
            /\ (req[r].probe = "fail"
                \/ \E i \in DOMAIN req[r].pages : req[r].pages[i].status = "fail")
               => req[r].pc = "failed" /\ req[r].error = "NetworkFailure")
    /\ [][ /\ patientResultsDataCache' # patientResultsDataCache
              => \E r \in 1..MaxRequests : PublishStep(r)
           /\ \A r \in 1..MaxRequests :
                (SeesFailure(r) /\ req'[r] # req[r])
                => /\ req'[r].pc = "failed"
                   /\ req'[r].error = "NetworkFailure"
                   /\ req'[r].puts = 0
                   /\ patientResultsDataCache' = patientResultsDataCache ]_vars

\* a call failed on a concept request, after all its pages had arrived,
\* while the cache holds another call's result
C5_Witness ==
    \E r \in 1..MaxRequests :
        /\ req[r].pc = "failed"
        /\ req[r].error = "NetworkFailure"
        /\ req[r].probe # "fail"
        /\ req[r].issued # << >>
        /\ \E c \in ConceptUuids : conceptCache[c] = "fail"
        /\ patientResultsDataCache # << >>

\* C6: at most one network fetch is ever issued per concept identifier,
\* whatever the interleaving of the calls.
C6_OneFetchPerConcept ==
    \A c \in ConceptUuids : conceptFetches[c] <= 1

\* two calls wait for the same concept at the same time
C6_Witness ==
    \E r1, r2 \in 1..MaxRequests :
        /\ r1 # r2
        /\ req[r1].pc = "concepts" /\ req[r2].pc = "concepts"
        /\ "cTest" \in Range(req[r1].awaited) \cap Range(req[r2].awaited)
        /\ conceptFetches["cTest"] = 1

-----------------------------------------------------------------------------
(* Claims about assessValue, checked under SpecAssess *)

\* the cascade: bound, direction and interpretation, in the order of matching
Cascade ==
    << << "hiAbsolute", "above", "OFF_SCALE_HIGH" >>,
       << "hiCritical", "above", "CRITICALLY_HIGH" >>,
       << "hiNormal", "above", "HIGH" >>,
       << "lowAbsolute", "below", "OFF_SCALE_LOW" >>,
       << "lowCritical", "below", "CRITICALLY_LOW" >>,
       << "lowNormal", "below", "LOW" >> >>

\* step k of the cascade matches: its bound is given and strictly passed
CascadeMatches(k) ==
    LET bound == assessMeta[1][Cascade[k][1]]
    IN  /\ bound # None
        /\ IF Cascade[k][2] = "above" THEN assessArg[1] > bound[1]
                                      ELSE assessArg[1] < bound[1]

\* C11: assessValue is the first-match cascade off-scale-high, critically
\* high, high, off-scale-low, critically low, low, else normal, with strict
\* comparisons and a null bound never matching.
C11_FirstMatchCascade ==
    interpretation # None =>
        LET matching == { k \in DOMAIN Cascade : CascadeMatches(k) }
        IN  interpretation[1] =
              IF matching = { } THEN "NORMAL"
              ELSE Cascade[CHOOSE k \in matching : \A j \in matching : k <= j][3]

\* hiAbsolute = 100, hiCritical = 90, hiNormal = 80 and the value 95
C11_Witness ==
    /\ interpretation = Some("CRITICALLY_HIGH")
    /\ assessArg = Some(95)
    /\ assessMeta[1].hiAbsolute = Some(100)
    /\ assessMeta[1].hiCritical = Some(90)
    /\ assessMeta[1].hiNormal = Some(80)

-----------------------------------------------------------------------------
(* Claims about parseTime, checked under SpecTime *)

RECURSIVE SumSizes(_)
SumSizes(columns) ==
    IF columns = << >> THEN 0 ELSE Head(columns).size + SumSizes(Tail(columns))

\* year, month, day, hour and minutes of timestamp i, read off the string
YearAt(i) == sortedTimes[i][1]
DayAt(i) == << sortedTimes[i][3], "/", sortedTimes[i][5] >>
ClockAt(i) == << sortedTimes[i][7], ":", sortedTimes[i][9] >>

\* C13: parseTime over n timestamps gives n time labels, label i from
\* timestamp i; year buckets and day buckets whose sizes each sum to n; and
\* exactly one bucket per distinct year and per distinct (year, month/day),
\* counting the timestamps of that year or day.
C13_BucketsAndLabels ==
    parsedTime # None =>
        LET n == Len(sortedTimes)
            out == parsedTime[1]
            years == { YearAt(i) : i \in 1..n }
            days == { << YearAt(i), DayAt(i) >> : i \in 1..n }
        IN  /\ Len(out.timeColumns) = n
            /\ \A i \in 1..n : out.timeColumns[i] = ClockAt(i)
            /\ SumSizes(out.yearColumns) = n
            /\ SumSizes(out.dayColumns) = n
            /\ Len(out.yearColumns) = Cardinality(years)
            /\ \A y \in years :
                 \E k \in DOMAIN out.yearColumns :
                   /\ out.yearColumns[k].year = y
                   /\ out.yearColumns[k].size =
                        Cardinality({ i \in 1..n : YearAt(i) = y })
            /\ Len(out.dayColumns) = Cardinality(days)
            /\ \A d \in days :
                 \E k \in DOMAIN out.dayColumns :
                   /\ out.dayColumns[k].year = d[1]
                   /\ out.dayColumns[k].day = d[2]
                   /\ out.dayColumns[k].size =
                        Cardinality({ i \in 1..n : << YearAt(i), DayAt(i) >> = d })

\* 2024-01-05T08:00 and 2024-01-05T14:30
C13_Witness ==
    /\ sortedTimes = << Stamp("2024", "01", "05", "08", "00"),
                        Stamp("2024", "01", "05", "14", "30") >>
    /\ parsedTime # None
    /\ parsedTime[1].yearColumns = << [ year |-> "2024", size |-> 2 ] >>
    /\ parsedTime[1].dayColumns =
         << [ day |-> << "01", "/", "05" >>, year |-> "2024", size |-> 2 ] >>
    /\ parsedTime[1].timeColumns = << << "08", ":", "00" >>, << "14", ":", "30" >> >>

-----------------------------------------------------------------------------
(* Claims about useTimelineData, checked under SpecHook *)

\* the aggregate is loaded without error, and no group of it has the uuid asked
NoGroupMatches ==
    /\ hookArgs[1].sortedObs # None
    /\ hookArgs[1].loaded
    /\ hookArgs[1].error = None
    /\ \A name \in DOMAIN hookArgs[1].sortedObs[1] :
         hookArgs[1].sortedObs[1][name].uuid # hookArgs[1].panelUuid

-----------------------------------------------------------------------------
(* Further claims about loadObsEntries, checked under SpecFetch *)

\* the page requests of call r that are not answered yet
PendingPages(r) ==
    { i \in DOMAIN req[r].pages : req[r].pages[i].status = "pending" }

\* in this step call r gets the last answer it waits for: every other page
\* request it has issued is answered, none has failed
LastAnswerArrives(r) ==
    /\ req[r].pc = "pages"
    /\ Len(req[r].pages) = Len(req[r].issued)
    /\ Cardinality(PendingPages(r)) = 1
    /\ \A i \in DOMAIN req[r].pages : req[r].pages[i].status \in { "pending", "ok" }

\* C14: the result of loadObsEntries is the patient's `total` observations in
\* (page, within-page) order, whatever the order in which the page requests
\* were answered; it is produced only in the step in which the last page
\* request issued is answered; what pages beyond ceil(total / 100) hold is
\* not part of it.
C14_FlattenedInPageOrder ==
    /\ [](\A r \in 1..MaxRequests :
            (req[r].kind = "obs" /\ req[r].pc = "done") =>
                /\ req[r].returned = Some(Dataset(req[r].patient, 1))
                /\ Len(req[r].returned[1]) = FetchTotals[req[r].patient]
                /\ Len(req[r].issued) >= Ceil(FetchTotals[req[r].patient], PAGE_SIZE))
    /\ [][ \A r \in 1..MaxRequests :
             (req[r].kind = "obs" /\ req[r].returned = None /\ req'[r].returned # None)
             => LastAnswerArrives(r) ]_vars

\* a finished run for the patient of 101 observations: two pages kept of six
C14_Witness ==
    \E r \in 1..MaxRequests :
        /\ req[r].kind = "obs"
        /\ req[r].pc = "done"
        /\ req[r].patient = "t101"
        /\ Len(req[r].returned[1]) = 101
        /\ req[r].returned[1][101] = Dataset("t101", 1)[101]

\* C15: for a total above 600 the second burst has exactly
\* ceil(total / 100) - 6 requests and is issued only once all 6 requests of
\* the first burst are answered; over the run each offset 0 ..
\* ceil(total / 100) - 1 is requested exactly once, and no other offset.
C15_SecondBurstCompletesThePages ==
    /\ [](\A r \in 1..MaxRequests :
            LET total == FetchTotals[req[r].patient]
                offsets(n) == [ i \in 1..n |-> i - 1 ]
            IN  (req[r].kind = "obs" /\ total > CHUNK_PREFETCH_COUNT * PAGE_SIZE) =>
                    /\ req[r].burst = 1 =>
                         req[r].issued = offsets(CHUNK_PREFETCH_COUNT)
                    /\ req[r].burst = 2 =>
                         req[r].issued = offsets(Ceil(total, PAGE_SIZE))
                    /\ req[r].pc = "done" => req[r].burst = 2)
    /\ [][ \A r \in 1..MaxRequests :
             (req[r].kind = "obs" /\ req'[r].issued # req[r].issued /\ req[r].burst = 1)
             => /\ LastAnswerArrives(r)
                /\ Len(req[r].pages) = CHUNK_PREFETCH_COUNT
                /\ req'[r].burst = 2
                /\ Len(req'[r].issued) - Len(req[r].issued) =
                     Ceil(FetchTotals[req[r].patient], PAGE_SIZE) - CHUNK_PREFETCH_COUNT
                /\ \A i \in DOMAIN req'[r].pages :
                     i > CHUNK_PREFETCH_COUNT => req'[r].pages[i].status = "pending" ]_vars

\* a finished run for the patient of 601 observations
C15_Witness ==
    \E r \in 1..MaxRequests :
        /\ req[r].kind = "obs"
        /\ req[r].pc = "done"
        /\ req[r].patient = "t601"
        /\ req[r].burst = 2
        /\ Len(req[r].issued) = 7

-----------------------------------------------------------------------------
(* Further claims about the engine, checked under Spec *)

\* the aggregate of the patient's observations in the given version
AggregateOf(patient, version) ==
    BuildSortedObs(Dataset(patient, version), PresentConcepts(Dataset(patient, version)))

\* C16: the record an aggregate request finds holds the aggregate of a
\* complete fetch and, as indicator, the identifier of the first raw entry
\* of that fetch; when the probe answers that identifier the request returns
\* that aggregate, which an earlier request for the patient had put and
\* returned, issuing no page request and no concept request.
C16_RepeatRequestHitsCache ==
    /\ [](\A r \in 1..MaxRequests :
            LET call == req[r]
            IN  (call.kind = "agg" /\ call.cached # None /\ call.probe = "ok") =>
                  \E v \in 1..LastVersion(call.patient) :
                    /\ call.cached[1].indicator = Dataset(call.patient, v)[1].id
                    /\ call.cached[1].data = AggregateOf(call.patient, v)
                    /\ call.latest = Some(Dataset(call.patient, v)[1].id) =>
                         /\ call.get = "hit"
                         /\ call.pc = "done"
                         /\ call.returned = Some(AggregateOf(call.patient, v))
                         /\ call.issued = << >>
                         /\ call.puts = 0
                         /\ \E first \in 1..(r - 1) :
                              /\ req[first].patient = call.patient
                              /\ req[first].pc = "done"
                              /\ req[first].puts = 1
                              /\ req[first].returned = call.returned)
    /\ [][ \A r \in 1..MaxRequests :
             (req[r].get # "hit" /\ req'[r].get = "hit") =>
                /\ conceptFetches' = conceptFetches
                /\ conceptCache' = conceptCache
                /\ patientResultsDataCache' = patientResultsDataCache ]_vars

\* the second of two requests for a patient returns what the first has put
C16_Witness ==
    \E first, r \in 1..MaxRequests :
        /\ first < r
        /\ req[first].patient = req[r].patient
        /\ req[first].pc = "done" /\ req[first].puts = 1
        /\ req[r].pc = "done" /\ req[r].get = "hit"
        /\ req[r].returned = req[first].returned
        /\ req[r].issued = << >>

-----------------------------------------------------------------------------
(* Further claims about the freshness cache, checked under SpecCache *)

\* C17: the cache never holds more than 3 records, one per patient; a put for
\* a patient already present replaces that patient's record and leaves the
\* number of records and the patients present as they were.
C17_AtMostThreeRecords ==
    /\ [](/\ Len(patientResultsDataCache) <= CacheLimit
          /\ Cardinality(CacheKeys(patientResultsDataCache)) =
               Len(patientResultsDataCache))
    /\ [][ LET patient == putOrder'[Len(putOrder')]
           IN  patient \in CacheKeys(patientResultsDataCache) =>
                 /\ Len(patientResultsDataCache') = Len(patientResultsDataCache)
                 /\ CacheKeys(patientResultsDataCache') =
                      CacheKeys(patientResultsDataCache)
                 /\ CacheRecordOf(patientResultsDataCache', patient)[1].date = now'
                 /\ \A q \in CacheKeys(patientResultsDataCache) \ { patient } :
                      CacheRecordOf(patientResultsDataCache', q) =
                        CacheRecordOf(patientResultsDataCache, q) ]_vars

\* more patients have been put than the cache holds, the latest of them with
\* the aggregate of its newer observations
C17_Witness ==
    /\ Len(patientResultsDataCache) = CacheLimit
    /\ Len(putOrder) > CacheLimit
    /\ LET latest == putOrder[Len(putOrder)]
       IN  /\ CacheRecordOf(patientResultsDataCache, latest) # None
           /\ CacheRecordOf(patientResultsDataCache, latest)[1].data =
                AggregateOf(latest, 2)

-----------------------------------------------------------------------------
(* Further claims about the reconstruction, checked under SpecRecon *)

\* the places of the aggregate where an entry with the identifier stands as an
\* entry of a group
GroupPlaces(agg, id) ==
    { << name, k >> \in (DOMAIN agg) \X (1..MaxEntries) :
        k \in DOMAIN agg[name].entries /\ agg[name].entries[k].id = id }

\* ... and as a member of a panel of a group
SlotPlaces(agg, id) ==
    { << name, k, i >> \in (DOMAIN agg) \X (1..MaxEntries) \X (1..MaxEntries) :
        /\ k \in DOMAIN agg[name].entries
        /\ agg[name].entries[k].members # None
        /\ i \in DOMAIN agg[name].entries[k].members[1]
        /\ agg[name].entries[k].members[1][i] # None
        /\ agg[name].entries[k].members[1][i][1].id = id }

\* C18: every raw entry of a recognized category stands exactly once in the
\* aggregate, in the group of its own category or in a member slot of a
\* panel; a single entry that a retained panel declares as member stands in
\* a slot and not in a group; an entry of an unrecognized category stands
\* nowhere; and nothing else stands in the aggregate.
C18_PartitionsRecognizedEntries ==
    reconStage = "done" =>
        LET agg == sortedObs[1]
        IN  /\ \A k \in DOMAIN raw :
                 LET inGroups == GroupPlaces(agg, raw[k].id)
                     inSlots == SlotPlaces(agg, raw[k].id)
                 IN  IF Recognized(raw[k].code)
                     THEN /\ Cardinality(inGroups) + Cardinality(inSlots) = 1
                          /\ \A place \in inGroups : agg[place[1]].uuid = raw[k].code
                          /\ (/\ raw[k].hasMember = None
                              /\ \E k2 \in DOMAIN raw : \E i \in 1..(MaxEntries + 1) :
                                   Declares(k2, i, raw[k].id))
                             => inGroups = { }
                     ELSE inGroups = { } /\ inSlots = { }
            /\ \A id \in 1..(MaxEntries + 1) :
                 (GroupPlaces(agg, id) # { } \/ SlotPlaces(agg, id) # { })
                 => \E k \in DOMAIN raw : raw[k].id = id

\* a panel with its member in a slot, beside an entry of an unrecognized
\* category
C18_Witness ==
    /\ reconStage = "done"
    /\ \E k, m, u \in DOMAIN raw :
         /\ Recognized(raw[k].code) /\ raw[k].hasMember # None
         /\ Recognized(raw[m].code) /\ raw[m].hasMember = None
         /\ ~Recognized(raw[u].code)
         /\ SlotPlaces(sortedObs[1], raw[m].id) # { }
         /\ GroupPlaces(sortedObs[1], raw[k].id) # { }

-----------------------------------------------------------------------------
(* Claims about failures of the engine, checked under Spec *)

\* the concepts the observations of the patient refer to, in the version
ConceptsOf(patient, version) == Range(PresentConceptUuids(Dataset(patient, version)))

\* C19: a failed concept fetch stays memoized: the fetch is never issued
\* again, and every aggregate request that waits for that concept fails with
\* the network failure; no request ends with an aggregate whose observations
\* refer to a concept whose fetch has failed.
C19_FailedFetchStaysMemoized ==
    /\ [](/\ \A c \in ConceptUuids : conceptCache[c] = "fail" => conceptFetches[c] = 1
          /\ \A r \in 1..MaxRequests : \A v \in 1..LastVersion(req[r].patient) :
               (/\ req[r].kind = "agg"
                /\ req[r].puts = 1
                /\ req[r].returned = Some(AggregateOf(req[r].patient, v)))
               => \A c \in ConceptsOf(req[r].patient, v) : conceptCache[c] = "ok")
    /\ [][ /\ \A c \in ConceptUuids :
                conceptCache[c] = "fail" =>
                    conceptCache'[c] = "fail" /\ conceptFetches'[c] = conceptFetches[c]
           /\ \A r \in 1..MaxRequests :
                (/\ req[r].pc = "concepts"
                 /\ \E i \in DOMAIN req[r].awaited : conceptCache[req[r].awaited[i]] = "fail"
                 /\ req'[r] # req[r])
                => /\ req'[r].pc = "failed"
                   /\ req'[r].error = "NetworkFailure"
                   /\ req'[r].returned = None ]_vars

\* a request has failed and the other waits for a concept whose only fetch
\* has failed
C19_Witness ==
    \E r1, r2 \in 1..MaxRequests : \E c \in ConceptUuids :
        /\ req[r1].pc = "failed" /\ req[r1].error = "NetworkFailure"
        /\ req[r1].probe # "fail"
        /\ req[r2].pc = "concepts"
        /\ c \in Range(req[r2].awaited)
        /\ conceptCache[c] = "fail"
        /\ conceptFetches[c] = 1

\* C20: an aggregate request for the patient without observations never
\* returns an aggregate and never writes the cache: once its pages are
\* answered it fails with the TypeError of reading the first entry's
\* identifier; no record of the patient is ever cached, so every request for
\* the patient finds no record, issues no probe and makes the full fetch.
C20_NoObservationsNeverCached ==
    /\ [](/\ "p0" \notin CacheKeys(patientResultsDataCache)
          /\ \A r \in 1..MaxRequests :
               (req[r].kind = "agg" /\ req[r].patient = "p0") =>
                   /\ req[r].cached = None /\ req[r].probes = 0
                   /\ req[r].get = "miss"
                   /\ req[r].issued = [ i \in 1..CHUNK_PREFETCH_COUNT |-> i - 1 ]
                   /\ req[r].pc \in { "pages", "concepts", "failed" }
                   /\ req[r].returned = None /\ req[r].puts = 0
                   /\ req[r].pc = "failed" =>
                        req[r].error \in { "TypeError", "NetworkFailure" })
    /\ [][ \A r \in 1..MaxRequests :
             (/\ req[r].patient = "p0"
              /\ req[r].pc = "concepts"
              /\ req'[r] # req[r])
             => /\ req'[r].pc = "failed"
                /\ req'[r].error = "TypeError"
                /\ patientResultsDataCache' = patientResultsDataCache ]_vars

\* two requests for the patient without observations, both failed so
C20_Witness ==
    /\ \A r \in 1..2 :
         /\ req[r].patient = "p0"
         /\ req[r].pc = "failed"
         /\ req[r].error = "TypeError"
         /\ Len(req[r].issued) = CHUNK_PREFETCH_COUNT
    /\ patientResultsDataCache = << >>

=============================================================================
